---- MODULE Spec2Model ----
(***************************************************************************)
(* A model of the backdoor trigger transforms of cupbearer                 *)
(* (src/cupbearer/data/backdoors.py: CornerPixelBackdoor, NoiseBackdoor,   *)
(* WanetBackdoor) and of the script make_adversarial_examples.main.        *)
(*                                                                         *)
(* Probabilities and random draws are exact fractions over ProbDen: the    *)
(* integer n stands for n / ProbDen.  torch.rand draws from [0,1), so a    *)
(* draw is one of 0 .. ProbDen-1.                                          *)
(***************************************************************************)
EXTENDS Integers, Sequences, FiniteSets, TLC

(* ------------------------------ bounds -------------------------------- *)
\* probabilities and draws are multiples of 1 / ProbDen
ProbDen == 2
\* images have 1 .. MaxDim rows and 1 .. MaxDim columns
MaxDim == 2
\* a channel-last image has 2 .. MaxChan channels
MaxChan == 2
\* original labels are 1 .. MaxLabel
MaxLabel == 2
\* np.random.normal is one of the arrays NoiseArray(0) .. NoiseArray(MaxSeed)
MaxSeed == 1
\* images are filled with one of the patterns 0 .. MaxPattern
MaxPattern == 2
\* a control grid is 1 .. MaxGrid wide
MaxGrid == 2
\* a 4-D image has 1 .. MaxBatch images of 1 .. MaxWanetChan channels
MaxBatch == 2
MaxWanetChan == 1
\* the torch.rand of __post_init__ is one of the tensors 0 .. MaxGridSeed
MaxGridSeed == 0
\* main runs at most MaxRuns times on its directory
MaxRuns == 3

(* --------------------------- program constants ------------------------ *)
\* the value the corner pixel is set to: img[0, 0] = 1
MaxIntensity == 1

Corners == {"top-left", "top-right", "bottom-left", "bottom-right"}
\* what a caller may pass as corner: the four names and one that is none of them
CornerInputs == Corners \cup {"center"}
\* what a caller may pass as a probability: -1/ProbDen .. 1 + 1/ProbDen
ProbInputs == (0 - 1) .. (ProbDen + 1)
\* torch.rand(1): a value of [0, 1)
RandDraws == 0 .. (ProbDen - 1)
Labels == 1 .. MaxLabel
TargetClasses == {1, 7}

(* ------------------------------ images -------------------------------- *)
\* A numpy image: ndim = 2 is [H, W], ndim = 3 is channel-last [H, W, C].
\* data[i][j] is the sequence of the pixel's channel values (one value when
\* ndim = 2); rows and columns are 1-based, so python's index 0 is 1 and
\* python's index -1 is the last one.
PixelValues == 0 .. MaxIntensity

\* the pixel values of the image family: pattern 0 is all zero, pattern 1 all
\* MaxIntensity, the others mix the two
Fill(s, i, j, ch) ==
    IF s = 0 THEN 0
    ELSE IF s = 1 THEN MaxIntensity
    ELSE ((i + s * j + ch) % 2) * MaxIntensity

ImageOf(h, w, nd, c, s) ==
    [ndim |-> nd, h |-> h, w |-> w, c |-> c,
     data |-> [i \in 1 .. h |-> [j \in 1 .. w |-> [ch \in 1 .. c |->
                 Fill(s, i, j, ch)]]]]

Images ==
    { ImageOf(h, w, 2, 1, s) :
        h \in 1 .. MaxDim, w \in 1 .. MaxDim, s \in 0 .. MaxPattern }
    \cup
    { ImageOf(sh[1], sh[2], 3, sh[3], s) :
        sh \in (1 .. MaxDim) \X (1 .. MaxDim) \X (2 .. MaxChan),
        s \in 0 .. MaxPattern }

NoImage == [ndim |-> 0, h |-> 0, w |-> 0, c |-> 0, data |-> << >>]

\* python's a[i] for a first or second axis of length n: 0 is the first
\* entry, -1 the last
PyIndex(i, n) == IF i < 0 THEN n + 1 + i ELSE i + 1

\* img[i, j] = v with a scalar v: numpy broadcasts v over the channel axis
SetItem(img, i, j, v) ==
    [img EXCEPT !.data[PyIndex(i, img.h)][PyIndex(j, img.w)] =
                    [ch \in 1 .. img.c |-> v]]

(* ------------------------- exact arithmetic --------------------------- *)
\* Only({e : v \in {x}}) is e with v naming the value of x: the local
\* assignment v = x of the code, x being evaluated once.
Only(S) == CHOOSE v \in S : TRUE

\* A tensor entry is an exact fraction [n |-> numerator, d |-> denominator]
\* with d > 0 in lowest terms; d = 0 is a value that is not a finite number:
\* n = 0 is NaN (0 / 0), any other n an infinity (x / 0).
Abs(x) == IF x < 0 THEN 0 - x ELSE x

RECURSIVE GCD(_, _)
GCD(a0, b0) ==
    Only({ IF b = 0 THEN a ELSE GCD(b, a % b) : a \in {a0}, b \in {b0} })

LCM(a0, b0) ==
    Only({ (a \div GCD(a, b)) * b : a \in {a0}, b \in {b0} })

NaN == [n |-> 0, d |-> 0]

IsFinite(a) == a.d > 0

Frac(n0, d0) ==
    Only({ Only({ IF d < 0
                  THEN [n |-> (0 - n) \div g, d |-> (0 - d) \div g]
                  ELSE [n |-> n \div g, d |-> d \div g] :
                  g \in {GCD(Abs(n), Abs(d))} }) :
           n \in {n0}, d \in {d0} })

RAdd(a0, b0) ==
    Only({ IF IsFinite(a) /\ IsFinite(b)
           THEN Only({ Frac(a.n * (l \div a.d) + b.n * (l \div b.d), l) :
                       l \in {LCM(a.d, b.d)} })
           ELSE NaN :
           a \in {a0}, b \in {b0} })

RNeg(a0) ==
    Only({ IF IsFinite(a) THEN [n |-> 0 - a.n, d |-> a.d] ELSE NaN :
           a \in {a0} })

RSub(a, b) == RAdd(a, RNeg(b))

RMul(a0, b0) ==
    Only({ IF IsFinite(a) /\ IsFinite(b)
           THEN Only({ Frac((a.n \div g[1]) * (b.n \div g[2]),
                            (a.d \div g[2]) * (b.d \div g[1])) :
                       g \in {<<GCD(Abs(a.n), b.d), GCD(Abs(b.n), a.d)>>} })
           ELSE NaN :
           a \in {a0}, b \in {b0} })

\* IEEE division: 0 / 0 is NaN and x / 0 an infinity; no exception is raised
RDiv(a0, b0) ==
    Only({ IF IsFinite(a) /\ IsFinite(b)
           THEN IF b.n = 0
                THEN [n |-> (IF a.n > 0 THEN 1
                             ELSE IF a.n < 0 THEN 0 - 1 ELSE 0),
                      d |-> 0]
                ELSE RMul(a, [n |-> (IF b.n < 0 THEN 0 - b.d ELSE b.d),
                              d |-> Abs(b.n)])
           ELSE NaN :
           a \in {a0}, b \in {b0} })

RLess(a0, b0) ==
    Only({ Only({ a.n * (l \div a.d) < b.n * (l \div b.d) :
                  l \in {LCM(a.d, b.d)} }) :
           a \in {a0}, b \in {b0} })

RAbs(a0) == Only({ [n |-> Abs(a.n), d |-> a.d] : a \in {a0} })

\* floor of a finite fraction
RFloor(a0) == Only({ a.n \div a.d : a \in {a0} })

\* A tensor is a sequence (of sequences ...) of entries; Tensor(f) is f with
\* every entry evaluated, once.
Tensor(f) == f \o << >>

\* torch's min and max of two entries: NaN as soon as one is NaN
RMin2(a0, b0) ==
    Only({ IF ~IsFinite(a) \/ ~IsFinite(b) THEN NaN
           ELSE IF RLess(a, b) THEN a ELSE b :
           a \in {a0}, b \in {b0} })

RMax2(a0, b0) ==
    Only({ IF ~IsFinite(a) \/ ~IsFinite(b) THEN NaN
           ELSE IF RLess(a, b) THEN b ELSE a :
           a \in {a0}, b \in {b0} })

\* sum, minimum and maximum of a non-empty sequence of entries
RECURSIVE RSum(_)
RSum(q0) ==
    Only({ IF Len(q) = 1 THEN q[1] ELSE RAdd(q[1], RSum(Tail(q))) :
           q \in {q0} })

RECURSIVE RMin(_)
RMin(q0) ==
    Only({ IF Len(q) = 1 THEN q[1] ELSE RMin2(q[1], RMin(Tail(q))) :
           q \in {q0} })

RECURSIVE RMax(_)
RMax(q0) ==
    Only({ IF Len(q) = 1 THEN q[1] ELSE RMax2(q[1], RMax(Tail(q))) :
           q \in {q0} })

VARIABLES
    transform,   \* the transform instance: its fields, or kind "none"
    args,        \* the arguments of the last construction
    err,         \* how the last construction ended: "none" or the exception
    sample,      \* the (img, target) the last __call__ was given
    rand_sample, \* the torch.rand(1) draw of the last __call__
    result,      \* the (img, target) the last __call__ returned
    caller_img,  \* the caller's array object after the last __call__
    branch,      \* the branch the last __call__ took
    call_err,    \* the exception the last __call__ raised, or "none"
    warping_field, \* WanetBackdoor: the field after line 141 of the last call
    w_min,       \* WanetBackdoor: w_min of the last call, per coordinate
    w_max,       \* WanetBackdoor: w_max of the last call, per coordinate
    cfg,         \* make_adversarial_examples: the run's configuration
    adv_file,    \* cfg.dir.path / "adv_examples.pt": absent, or what wrote it
    adv_plot,    \* whether cfg.dir.path / "adv_examples.pdf" exists
    outcome,     \* how the last run of main ended
    runs         \* how many times main has run

tvars == <<transform, args, err, sample, rand_sample, result, caller_img,
           branch, call_err, warping_field, w_min, w_max>>

avars == <<cfg, adv_file, adv_plot, outcome, runs>>

vars == <<tvars, avars>>

NoGrid == << >>

NoTransform ==
    [kind |-> "none", p_backdoor |-> 0, p_noise |-> 0, corner |-> "",
     target_class |-> 0, control_grid_width |-> 0,
     warping_strength |-> Frac(0, 1), control_grid |-> NoGrid]

NoSample == [img |-> NoImage, target |-> 0]

NoArgs == [kind |-> "none", p_backdoor |-> 0, p_noise |-> 0, corner |-> ""]

\* adv_examples.pt does not exist
Absent == [exists |-> FALSE, rob_acc |-> 0]

InitTransform ==
    /\ transform = NoTransform
    /\ args = NoArgs
    /\ err = "none"
    /\ sample = NoSample
    /\ rand_sample = 0
    /\ result = NoSample
    /\ caller_img = NoImage
    /\ branch = "none"
    /\ call_err = "none"
    /\ warping_field = << >>
    /\ w_min = << >>
    /\ w_max = << >>

Init ==
    /\ InitTransform
    /\ cfg = [success_threshold |-> 0]
    /\ adv_file = Absent
    /\ adv_plot = FALSE
    /\ outcome = "none"
    /\ runs = 0

NoCall ==
    /\ sample' = NoSample
    /\ rand_sample' = 0
    /\ result' = NoSample
    /\ caller_img' = NoImage
    /\ branch' = "none"
    /\ call_err' = "none"
    /\ warping_field' = << >>
    /\ w_min' = << >>
    /\ w_max' = << >>

(* ------------------------ CornerPixelBackdoor ------------------------- *)
\* __post_init__: the two asserts
CornerPostInitOk(p, c) ==
    /\ 0 <= p /\ p <= ProbDen
    /\ c \in Corners

ConstructCorner ==
    \E p \in ProbInputs, c \in CornerInputs, t \in TargetClasses :
        /\ args' = [kind |-> "corner", p_backdoor |-> p, p_noise |-> 0,
                    corner |-> c]
        /\ UNCHANGED avars
        /\ IF CornerPostInitOk(p, c)
           THEN /\ transform' = [kind |-> "corner", p_backdoor |-> p,
                                 p_noise |-> 0, corner |-> c,
                                 target_class |-> t,
                                 control_grid_width |-> 0,
                                 warping_strength |-> Frac(0, 1),
                                 control_grid |-> NoGrid]
                /\ err' = "none"
           ELSE /\ transform' = NoTransform
                /\ err' = "AssertionError"
        /\ NoCall

\* the if / elif chain of __call__: the index pair the assignment writes
CornerIndex(c) ==
    CASE c = "top-left" -> <<0, 0>>
      [] c = "top-right" -> <<0 - 1, 0>>
      [] c = "bottom-left" -> <<0, 0 - 1>>
      [] c = "bottom-right" -> <<0 - 1, 0 - 1>>

\* the guard of the identity branch: torch.rand(1) > self.p_backdoor
SkipBackdoor(r, p) == r > p

CornerCall ==
    /\ transform.kind = "corner"
    /\ \E img \in Images, target \in Labels, r \in RandDraws :
        /\ sample' = [img |-> img, target |-> target]
        /\ rand_sample' = r
        /\ IF SkipBackdoor(r, transform.p_backdoor)
           THEN /\ result' = [img |-> img, target |-> target]
                /\ caller_img' = img
                /\ branch' = "identity"
           ELSE LET ix == CornerIndex(transform.corner)
                    out == SetItem(img, ix[1], ix[2], MaxIntensity)
                IN  /\ result' = [img |-> out,
                                  target |-> transform.target_class]
                    \* the assignment writes into the caller's array
                    /\ caller_img' = out
                    /\ branch' = "backdoor"
    /\ UNCHANGED <<transform, args, err, call_err, warping_field, w_min,
                   w_max, avars>>

(* --------------------------- NoiseBackdoor ---------------------------- *)
NoisePostInitOk(p) == 0 <= p /\ p <= ProbDen

ConstructNoise ==
    \E p \in ProbInputs, t \in TargetClasses :
        /\ args' = [kind |-> "noise", p_backdoor |-> p, p_noise |-> 0,
                    corner |-> ""]
        /\ UNCHANGED avars
        /\ IF NoisePostInitOk(p)
           THEN /\ transform' = [kind |-> "noise", p_backdoor |-> p,
                                 p_noise |-> 0, corner |-> "",
                                 target_class |-> t,
                                 control_grid_width |-> 0,
                                 warping_strength |-> Frac(0, 1),
                                 control_grid |-> NoGrid]
                /\ err' = "none"
           ELSE /\ transform' = NoTransform
                /\ err' = "AssertionError"
        /\ NoCall

\* np.random.normal(0, std, img.shape): one of a family of arrays of the
\* image's shape, in units of std
NoiseArray(seed, img) ==
    [i \in 1 .. img.h |-> [j \in 1 .. img.w |-> [ch \in 1 .. img.c |->
        ((seed + 3 * i + 5 * j + 7 * ch) % 3) - 1]]]

\* img + noise: a new array
AddNoise(img, noise) ==
    [img EXCEPT !.data =
        [i \in 1 .. img.h |-> [j \in 1 .. img.w |-> [ch \in 1 .. img.c |->
            img.data[i][j][ch] + noise[i][j][ch]]]]]

NoiseCall ==
    /\ transform.kind = "noise"
    /\ \E img \in Images, target \in Labels, r \in RandDraws,
          seed \in 0 .. MaxSeed :
        /\ sample' = [img |-> img, target |-> target]
        /\ rand_sample' = r
        /\ caller_img' = img
        /\ IF SkipBackdoor(r, transform.p_backdoor)
           THEN /\ result' = [img |-> img, target |-> target]
                /\ branch' = "identity"
           ELSE /\ result' = [img |-> AddNoise(img, NoiseArray(seed, img)),
                              target |-> transform.target_class]
                /\ branch' = "backdoor"
    /\ UNCHANGED <<transform, args, err, call_err, warping_field, w_min,
                   w_max, avars>>

(* --------------------------- WanetBackdoor ---------------------------- *)
\* torch.rand: entry idx of the tensor drawn under `seed`, a value of [0, 1)
RandUnit(seed, idx) ==
    Frac(2 * ((seed + idx + ((idx * idx) \div 3)) % 4) + 1, 8)

\* 2 * torch.rand(...) - 1, entry idx
RandSigned(seed, idx) ==
    RSub(RMul(Frac(2, 1), RandUnit(seed, idx)), Frac(1, 1))

\* warping_strength: the default, 0.5
StrengthInputs == {Frac(1, 2)}

\* __post_init__, lines 97-100: the control grid of shape (1, 2, k, k),
\* grid[c][i][j]; normalised by its mean absolute value, times the strength
ControlGridOf(k, strength, seed) ==
    Only({ Only({
        Tensor([c \in 1 .. 2 |-> Tensor([i \in 1 .. k |->
            Tensor([j \in 1 .. k |->
                RMul(RDiv(raw[(c - 1) * k * k + (i - 1) * k + j], mean),
                     strength)])])]) :
        mean \in {RDiv(RSum(Tensor([idx \in 1 .. 2 * k * k |->
                                      RAbs(raw[idx])])),
                       Frac(2 * k * k, 1))} }) :
        raw \in {Tensor([idx \in 1 .. 2 * k * k |-> RandSigned(seed, idx)])}
    })

\* a __post_init__ that checks each probability and not their sum
WanetPostInitEach(pb, pn) ==
    0 <= pb /\ pb <= ProbDen /\ 0 <= pn /\ pn <= ProbDen

\* __post_init__, lines 103-104: the one assert on the probabilities
WanetPostInitOk(pb, pn) == 0 <= pb + pn /\ pb + pn <= ProbDen

ConstructWanet ==
    \E pb \in ProbInputs, pn \in ProbInputs, k \in 1 .. MaxGrid,
       st \in StrengthInputs, t \in TargetClasses,
       seed \in 0 .. MaxGridSeed :
        /\ args' = [kind |-> "wanet", p_backdoor |-> pb, p_noise |-> pn,
                    corner |-> ""]
        /\ UNCHANGED avars
        /\ IF WanetPostInitOk(pb, pn)
           THEN /\ transform' = [kind |-> "wanet", p_backdoor |-> pb,
                                 p_noise |-> pn, corner |-> "",
                                 target_class |-> t,
                                 control_grid_width |-> k,
                                 warping_strength |-> st,
                                 control_grid |-> ControlGridOf(k, st, seed)]
                /\ err' = "none"
           ELSE /\ transform' = NoTransform
                /\ err' = "AssertionError"
        /\ NoCall

\* The 4-D image of __call__, [bs, cs, py, px]: data[b][c][y][x].
WanetImageOf(bs, cs, py, px, s) ==
    [bs |-> bs, cs |-> cs, py |-> py, px |-> px,
     data |-> Tensor([b \in 1 .. bs |-> Tensor([c \in 1 .. cs |->
                Tensor([y \in 1 .. py |-> Tensor([x \in 1 .. px |->
                    Frac(Fill(s, y, x, c), 1)])])])])]

WanetImages ==
    { WanetImageOf(sh[1], sh[2], sh[3], sh[4], s) :
        sh \in (1 .. MaxBatch) \X (1 .. MaxWanetChan) \X (1 .. MaxDim)
               \X (1 .. MaxDim),
        s \in 0 .. MaxPattern }

\* torch's bicubic kernel (A = -0.75) of F.interpolate(mode='bicubic')
CubicA == Frac(0 - 3, 4)

CubicConvolution1(x0) ==
    Only({ RAdd(RMul(RMul(RSub(RMul(RAdd(CubicA, Frac(2, 1)), x),
                               RAdd(CubicA, Frac(3, 1))), x), x),
                Frac(1, 1)) :
           x \in {x0} })

CubicConvolution2(x0) ==
    Only({ RSub(RMul(RAdd(RMul(RSub(RMul(CubicA, x),
                                    RMul(Frac(5, 1), CubicA)), x),
                          RMul(Frac(8, 1), CubicA)), x),
                RMul(Frac(4, 1), CubicA)) :
           x \in {x0} })

\* the source coordinate (0-based) of output index i (1-based) when an axis
\* of length k is resized to length n, align_corners = False:
\* (k / n) * ((i - 1) + 0.5) - 0.5
SourceCoord(k, n, i) == Frac(k * (2 * i - 1) - n, 2 * n)

\* a source index (0-based) clamped to the axis, 1-based
ClampIndex(z, k) == IF z < 0 THEN 1 ELSE IF z > k - 1 THEN k ELSE z + 1

\* the four taps of output index i: their source indices and their weights
Taps(k, n, i) ==
    Only({ Only({
        [src |-> <<ClampIndex(in - 1, k), ClampIndex(in, k),
                   ClampIndex(in + 1, k), ClampIndex(in + 2, k)>>,
         w |-> <<CubicConvolution2(RAdd(t, Frac(1, 1))),
                 CubicConvolution1(t),
                 CubicConvolution1(RSub(Frac(1, 1), t)),
                 CubicConvolution2(RSub(Frac(2, 1), t))>>] :
        t \in {RSub(real, Frac(RFloor(real), 1))}, in \in {RFloor(real)} }) :
        real \in {SourceCoord(k, n, i)} })

\* F.interpolate(input=grid, size=(py, px), mode='bicubic').movedim(1, -1):
\* the field of shape (1, py, px, 2), field[y][x][c]
Interpolate(grid, k, py, px) ==
    Only({
        Tensor([y \in 1 .. py |-> Tensor([x \in 1 .. px |->
            Tensor([c \in 1 .. 2 |->
                RSum(Tensor([a \in 1 .. 4 |->
                    RMul(ty[y].w[a],
                         RSum(Tensor([b \in 1 .. 4 |->
                             RMul(tx[x].w[b],
                                  grid[c][ty[y].src[a]][tx[x].src[b]])])))
                ]))])])]) :
        ty \in {Tensor([y \in 1 .. py |-> Taps(k, py, y)])},
        tx \in {Tensor([x \in 1 .. px |-> Taps(k, px, x)])} })

\* 2 * torch.rand_like(warping_field) - 1
FieldNoise(seed, py, px) ==
    Tensor([y \in 1 .. py |-> Tensor([x \in 1 .. px |->
        Tensor([c \in 1 .. 2 |-> RandSigned(seed, 4 * y + 2 * x + c)])])])

\* warping_field + noise
AddField(f, g, py, px) ==
    Tensor([y \in 1 .. py |-> Tensor([x \in 1 .. px |->
        Tensor([c \in 1 .. 2 |-> RAdd(f[y][x][c], g[y][x][c])])])])

\* torch.linspace(-1, 1, n)[i] (1-based i); one step gives [-1]
Linspace(n, i) == IF n = 1 THEN Frac(0 - 1, 1)
                  ELSE Frac(2 * (i - 1) - (n - 1), n - 1)

\* lines 130-136: the field divided by tensor([[[[py, px]]]]) (the last axis
\* broadcasts: entry 1 by py, entry 2 by px) plus the identity field, whose
\* entry 1 is linspace(-1, 1, px)[x] and entry 2 linspace(-1, 1, py)[y]
RelativeField(f, py, px) ==
    Tensor([y \in 1 .. py |-> Tensor([x \in 1 .. px |->
        <<RAdd(Linspace(px, x), RDiv(f[y][x][1], Frac(py, 1))),
          RAdd(Linspace(py, y), RDiv(f[y][x][2], Frac(px, 1)))>>])])

\* warping_field.view(-1, 2): entry c of every pixel, as a sequence
Column(f, py, px, c) ==
    Tensor([idx \in 1 .. py * px |->
        f[((idx - 1) \div px) + 1][((idx - 1) % px) + 1][c]])

\* lines 139-140: w_min and w_max, one entry per coordinate
FieldMin(f, py, px) == <<RMin(Column(f, py, px, 1)), RMin(Column(f, py, px, 2))>>

FieldMax(f, py, px) == <<RMax(Column(f, py, px, 1)), RMax(Column(f, py, px, 2))>>

\* line 141: 2 * (warping_field - w_min) / (w_max - w_min) - 1
Rescale(f, lo, hi, py, px) ==
    Tensor([y \in 1 .. py |-> Tensor([x \in 1 .. px |->
        Tensor([c \in 1 .. 2 |->
            RSub(RDiv(RMul(Frac(2, 1), RSub(f[y][x][c], lo[c])),
                      RSub(hi[c], lo[c])),
                 Frac(1, 1))])])])

\* F.grid_sample(img, field, mode='bilinear', padding_mode='border'),
\* align_corners = False: a coordinate of [-1, 1] becomes a pixel position,
\* is clipped to the image, and the four neighbours are blended; a neighbour
\* outside the image contributes nothing
Unnormalize(coord, size) ==
    RDiv(RSub(RMul(RAdd(coord, Frac(1, 1)), Frac(size, 1)), Frac(1, 1)),
         Frac(2, 1))

ClipCoord(v0, size) ==
    Only({ IF RLess(v, Frac(0, 1)) THEN Frac(0, 1)
           ELSE IF RLess(Frac(size - 1, 1), v) THEN Frac(size - 1, 1)
           ELSE v :
           v \in {v0} })

\* chan[yy][xx] (0-based) inside the image, 0 outside
PixelOrZero(chan, yy, xx, py, px) ==
    IF 0 <= xx /\ xx <= px - 1 /\ 0 <= yy /\ yy <= py - 1
    THEN chan[yy + 1][xx + 1] ELSE Frac(0, 1)

Bilinear(chan, ix0, iy0, py, px) ==
    Only({ Only({
        RSum(<<RMul(PixelOrZero(chan, y0, x0, py, px),
                    RMul(RSub(Frac(1, 1), tx), RSub(Frac(1, 1), ty))),
               RMul(PixelOrZero(chan, y0, x0 + 1, py, px),
                    RMul(tx, RSub(Frac(1, 1), ty))),
               RMul(PixelOrZero(chan, y0 + 1, x0, py, px),
                    RMul(RSub(Frac(1, 1), tx), ty)),
               RMul(PixelOrZero(chan, y0 + 1, x0 + 1, py, px),
                    RMul(tx, ty))>>) :
        x0 \in {RFloor(ix)}, y0 \in {RFloor(iy)},
        tx \in {RSub(ix, Frac(RFloor(ix), 1))},
        ty \in {RSub(iy, Frac(RFloor(iy), 1))} }) :
        ix \in {ix0}, iy \in {iy0} })

\* What grid_sample returns for a pixel whose coordinate is not a number
\* depends on the kernel (NaN, or a pixel the clipped index happens to
\* address): `pick` chooses NaN (0) or the input pixel number `pick`.
UndefinedPixel(chan, pick, py, px) ==
    IF pick = 0 THEN NaN
    ELSE chan[((pick - 1) \div px) + 1][((pick - 1) % px) + 1]

GridSample(img, field, pick) ==
    [img EXCEPT !.data =
        Tensor([b \in 1 .. img.bs |-> Tensor([c \in 1 .. img.cs |->
            Tensor([y \in 1 .. img.py |-> Tensor([x \in 1 .. img.px |->
                IF IsFinite(field[y][x][1]) /\ IsFinite(field[y][x][2])
                THEN Bilinear(img.data[b][c],
                              ClipCoord(Unnormalize(field[y][x][1], img.px),
                                        img.px),
                              ClipCoord(Unnormalize(field[y][x][2], img.py),
                                        img.py),
                              img.py, img.px)
                ELSE UndefinedPixel(img.data[b][c], pick, img.py, img.px)
            ])])])])]

FieldIsFinite(f, py, px) ==
    \A y \in 1 .. py, x \in 1 .. px, c \in 1 .. 2 : IsFinite(f[y][x][c])

\* the guard of the warping branches: rand_sample <= p_backdoor + p_noise
TakesWarp(r, pb, pn) == r <= pb + pn

\* a noise mode that takes the draw equal to p_noise too
NoiseModeInclusive(r, pn) == r <= pn

\* the guard of noise mode: rand_sample < p_noise
NoiseMode(r, pn) == r < pn

\* lines 114-141 of __call__: w_min, w_max and the field after the rescale
\* of line 141, in noise mode (noise added) or adversary mode
WarpOf(grid, py, px, noise_mode, seed) ==
    Only({ Only({
        [w_min |-> lo, w_max |-> hi,
         field |-> Rescale(rel, lo, hi, py, px)] :
        lo \in {FieldMin(rel, py, px)}, hi \in {FieldMax(rel, py, px)} }) :
        rel \in { Only({
            RelativeField(IF noise_mode
                          THEN AddField(up, FieldNoise(seed, py, px), py, px)
                          ELSE up,
                          py, px) :
            up \in {Interpolate(grid, Len(grid[1]), py, px)} }) } })

\* WarpOf and GridSample, tabulated once over the grids __post_init__ can
\* build and the inputs of the calls
ControlGrids ==
    { ControlGridOf(k, st, seed) :
        k \in 1 .. MaxGrid, st \in StrengthInputs,
        seed \in 0 .. MaxGridSeed }

Table(f) == f @@ << >>

WarpMemo ==
    Table([key \in ControlGrids \X (1 .. MaxDim) \X (1 .. MaxDim) \X BOOLEAN
                   \X (0 .. MaxSeed) |->
              WarpOf(key[1], key[2], key[3], key[4], key[5])])

Warp(grid, py, px, noise_mode, seed) ==
    IF grid \in ControlGrids
    THEN WarpMemo[<<grid, py, px, noise_mode, seed>>]
    ELSE WarpOf(grid, py, px, noise_mode, seed)

SampleMemo ==
    Table([key \in ControlGrids \X { i \in WanetImages : i.bs = 1 }
                   \X BOOLEAN \X (0 .. MaxSeed) \X (0 .. 1) |->
              GridSample(key[2],
                         Warp(key[1], key[2].py, key[2].px, key[3],
                              key[4]).field,
                         key[5])])

Warped(grid, img, noise_mode, seed, pick) ==
    IF grid \in ControlGrids
    THEN SampleMemo[<<grid, img, noise_mode, seed, pick>>]
    ELSE GridSample(img, Warp(grid, img.py, img.px, noise_mode, seed).field,
                    pick)

\* a __call__ that draws the control grid afresh
WanetFrameRedrawn ==
    /\ transform' =
         [transform EXCEPT !.control_grid =
              ControlGridOf(transform.control_grid_width,
                            transform.warping_strength, MaxGridSeed + 1)]
    /\ UNCHANGED <<args, err, avars>>

\* __call__ assigns no attribute of self and applies no in-place operation
\* to self.control_grid: interpolate, +, / and grid_sample return new tensors
WanetFrame == UNCHANGED <<transform, args, err, avars>>

WanetCall ==
    /\ transform.kind = "wanet"
    /\ \E img \in WanetImages, target \in Labels, r \in RandDraws,
          seed \in 0 .. MaxSeed, pick \in 0 .. 1 :
        \E warp \in {Warp(transform.control_grid, img.py, img.px,
                          NoiseMode(r, transform.p_noise), seed)} :
            \* the draws that are not used are not made
            /\ NoiseMode(r, transform.p_noise) \/ seed = 0
            /\ ~FieldIsFinite(warp.field, img.py, img.px) \/ pick = 0
            /\ sample' = [img |-> img, target |-> target]
            /\ rand_sample' = r
            /\ caller_img' = img
            /\ IF TakesWarp(r, transform.p_backdoor, transform.p_noise)
               THEN /\ branch' = IF NoiseMode(r, transform.p_noise)
                                 THEN "noise" ELSE "adversary"
                    /\ w_min' = warp.w_min
                    /\ w_max' = warp.w_max
                    /\ warping_field' = warp.field
                    \* grid_sample wants as many grids as images, and the
                    \* field has one
                    /\ IF img.bs = 1
                       THEN /\ call_err' = "none"
                            /\ result' =
                                 [img |-> Warped(transform.control_grid, img,
                                             NoiseMode(r, transform.p_noise),
                                             seed, pick),
                                  target |->
                                     IF NoiseMode(r, transform.p_noise)
                                     THEN target
                                     ELSE transform.target_class]
                       ELSE /\ call_err' = "RuntimeError"
                            /\ result' = NoSample
               ELSE /\ branch' = "identity"
                    /\ call_err' = "none"
                    /\ result' = [img |-> img, target |-> target]
                    /\ w_min' = << >>
                    /\ w_max' = << >>
                    /\ warping_field' = << >>
    /\ WanetFrame


NextWanet ==
    \/ ConstructWanet
    \/ WanetCall

SpecWanet == Init /\ [][NextWanet]_vars

(* -------------------- make_adversarial_examples.main ------------------ *)
\* rob_acc, the robust accuracy atk.save returns, in percent
RobAccs == { 10 * i : i \in 0 .. 10 }

\* cfg.success_threshold, in hundredths: 100 * cfg.success_threshold
ThresholdInputs == {0, 10, 50, 100}

\* line 39: rob_acc > 100 * cfg.success_threshold
AttackFailed(rob_acc, threshold) == rob_acc > threshold

\* One run of main(cfg) on the directory cfg.dir.path.
Main ==
    /\ runs < MaxRuns
    /\ runs' = runs + 1
    /\ IF adv_file.exists
       THEN \* lines 18-20: the examples exist, the attack is skipped
            /\ outcome' = "skipped"
            /\ UNCHANGED <<adv_file, adv_plot>>
       ELSE \E rob_acc \in RobAccs :
            \* line 36: atk.save writes save_path, whatever the accuracy
            /\ adv_file' = [exists |-> TRUE, rob_acc |-> rob_acc]
            /\ IF AttackFailed(rob_acc, cfg.success_threshold)
               THEN /\ outcome' = "RuntimeError"
                    /\ UNCHANGED adv_plot
               ELSE \* lines 46-57: the plot
                    /\ outcome' = "returned"
                    /\ adv_plot' = TRUE
    /\ UNCHANGED <<cfg, tvars>>

InitAttack ==
    /\ InitTransform
    /\ cfg \in [success_threshold : ThresholdInputs]
    /\ adv_file = Absent
    /\ adv_plot = FALSE
    /\ outcome = "none"
    /\ runs = 0

NextAttack == Main

SpecAttack == InitAttack /\ [][NextAttack]_vars

Next ==
    \/ ConstructCorner
    \/ ConstructNoise
    \/ CornerCall
    \/ NoiseCall

Spec == Init /\ [][Next]_vars

(* ============================== claims =============================== *)
\* the pixel (row, column) an image of h rows and w columns has at a corner
CornerLocation(c, h, w) ==
    CASE c = "top-left" -> <<1, 1>>
      [] c = "top-right" -> <<1, w>>
      [] c = "bottom-left" -> <<h, 1>>
      [] c = "bottom-right" -> <<h, w>>

\* the pixel locations at which two images of one shape differ
Differing(a, b) ==
    { loc \in (1 .. a.h) \X (1 .. a.w) :
        a.data[loc[1]][loc[2]] # b.data[loc[1]][loc[2]] }

CornerCalled == transform.kind = "corner" /\ branch # "none"

(* C1: with p_backdoor = 1, CornerPixelBackdoor.__call__ returns an image  *)
(* whose pixel at the corner named by `corner` holds the maximum intensity *)
(* and whose every other pixel is the input's, so that the two images      *)
(* differ at that one location and nowhere else.                           *)
C1_ExactlyTheNamedCorner ==
    (CornerCalled /\ transform.p_backdoor = ProbDen) =>
        LET loc == CornerLocation(transform.corner, sample.img.h,
                                  sample.img.w)
        IN  /\ Differing(result.img, sample.img) \subseteq {loc}
            /\ result.img.data[loc[1]][loc[2]][1] = MaxIntensity

\* the pixel the backdoor branch of CornerPixelBackdoor.__call__ wrote
WrittenPixel ==
    LET ix == CornerIndex(transform.corner)
    IN  result.img.data[PyIndex(ix[1], result.img.h)]
                       [PyIndex(ix[2], result.img.w)]

(* C2: on the backdoor branch the pixel CornerPixelBackdoor writes is      *)
(* white for a single-channel image and red for a multi-channel one:       *)
(* channel 0 at the maximum intensity, every other channel zero.           *)
C2_WhiteOrRed ==
    (CornerCalled /\ branch = "backdoor") =>
        /\ WrittenPixel[1] = MaxIntensity
        /\ \A ch \in 2 .. result.img.c : WrittenPixel[ch] = 0

(* C3: with p_backdoor = 1, whatever the draw and the original label,      *)
(* CornerPixelBackdoor.__call__ and NoiseBackdoor.__call__ return the      *)
(* label target_class, and the corner pixel named by `corner` holds the    *)
(* maximum intensity.                                                      *)
C3_TargetAndCornerAtOne ==
    (transform.kind \in {"corner", "noise"} /\ branch # "none"
        /\ transform.p_backdoor = ProbDen) =>
        /\ result.target = transform.target_class
        /\ transform.kind = "corner" =>
             LET loc == CornerLocation(transform.corner, sample.img.h,
                                       sample.img.w)
             IN  result.img.data[loc[1]][loc[2]][1] = MaxIntensity

\* C3, the half about the label alone (it holds)
LabelIsTargetAtOne ==
    (transform.kind \in {"corner", "noise"} /\ branch # "none"
        /\ transform.p_backdoor = ProbDen) =>
        result.target = transform.target_class

(* C4: with p_backdoor = 0 (and, for WanetBackdoor, p_noise = 0) the       *)
(* transform is the identity for every draw of [0, 1), 0 included: the     *)
(* returned image equals the input and the label is the original one.      *)
C4_IdentityAtZero ==
    (branch # "none" /\ transform.p_backdoor = 0 /\ transform.p_noise = 0) =>
        /\ result.img = sample.img
        /\ result.target = sample.target

WanetConstructed == args.kind = "wanet"

ValidProb(p) == 0 <= p /\ p <= ProbDen

C6_EachProbabilityChecked ==
    /\ (~ValidProb(args.p_backdoor) \/ ~ValidProb(args.p_noise))
         => (err # "none" /\ transform.kind = "none")
    /\ transform.kind # "none"
         => (ValidProb(transform.p_backdoor) /\ ValidProb(transform.p_noise))

\* the shape (1, 2, k, k) of a control grid
GridShapeIs(grid, k) ==
    /\ Len(grid) = 2
    /\ \A c \in 1 .. 2 :
        /\ Len(grid[c]) = k
        /\ \A i \in 1 .. k : Len(grid[c][i]) = k

(* C7: a __call__ of a WanetBackdoor, whichever branch it takes and        *)
(* whatever the image size, leaves the control grid as it was, of shape    *)
(* (1, 2, control_grid_width, control_grid_width).                         *)
C7_GridUnchangedByCall ==
    [][(transform.kind = "wanet" /\ branch' # "none") =>
          /\ transform'.control_grid = transform.control_grid
          /\ GridShapeIs(transform'.control_grid,
                         transform'.control_grid_width)]_vars

C7_Witness ==
    /\ transform.kind = "wanet"
    /\ branch = "noise"
    /\ call_err = "none"
    /\ sample.img.py # transform.control_grid_width
    /\ result.img # sample.img

WanetCalled == transform.kind = "wanet" /\ branch # "none"

C9_FieldSpansUnitSquare ==
    (WanetCalled /\ branch \in {"noise", "adversary"}) =>
        \A c \in 1 .. 2 :
            /\ w_max[c] # w_min[c]
            /\ FieldMin(warping_field, sample.img.py, sample.img.px)[c]
                 = Frac(0 - 1, 1)
            /\ FieldMax(warping_field, sample.img.py, sample.img.px)[c]
                 = Frac(1, 1)

(* C10: a run of main returns normally only if the adv_examples.pt present *)
(* at its end was written by an attack whose robust accuracy was at most   *)
(* 100 * success_threshold.                                                *)
C10_ReturnMeansAttackSucceeded ==
    outcome \in {"returned", "skipped"} =>
        /\ adv_file.exists
        /\ adv_file.rob_acc <= cfg.success_threshold

====
